---- MODULE Spec2Model ----
(***************************************************************************)
(* A model of the DeFi analyzer server: the tool-call handler, the three   *)
(* operations (getUserTransactions, compareWithOneInch,                    *)
(* generateSwapReport) and the HTTP clients they use (getDuneData,         *)
(* getOneInchQuote, getTokenPrice).                                        *)
(*                                                                         *)
(* The program is asynchronous JavaScript: one action of the model is one  *)
(* event of the event loop (a request arriving, an HTTP response arriving, *)
(* a timer firing) together with everything the code runs synchronously    *)
(* and in microtasks before it waits for the next event.                   *)
(*                                                                         *)
(* Numbers: amounts, gas and prices are integers; a slippage is held in    *)
(* hundredths of a percent (the code rounds it to two decimals), a score   *)
(* and a percentage are held as exact fractions until the code rounds.     *)
(***************************************************************************)
EXTENDS Integers, Sequences, FiniteSets, TLC

VARIABLES
  upstream,   \* how the remote services behave during this run
  env,        \* process.env: which API keys are set
  req,        \* the tool-call request being handled
  dune,       \* one getDuneData invocation per caller ("tx", "cmp")
  txop,       \* the getUserTransactions invocation
  cmp,        \* the compareWithOneInch invocation
  rep,        \* the generateSwapReport invocation
  resp,       \* what the request handler returned
  prev        \* the report of an earlier invocation, kept to compare runs

vars == <<upstream, env, req, dune, txop, cmp, rep, resp, prev>>

----------------------------------------------------------------------------
(* Bounds of the model *)

\* rows in one history response, in the specification of the whole server
MaxRows == 1
\* rows in one history response, in the retrieval specification
RetrMaxRows == 3
\* rows in one history response, in the comparison specification
CmpMaxRows == 3
\* transactions given to the efficiency score, in its specification
ScoreMaxTx == 6
\* rows of the wallet's history, in the report specification
RepMaxRows == 2
\* transactions given to the recommendations, in their specification
RecMaxTx == 3

(* Constants of the program *)

maxAttempts == 30
DefaultLimit == 10
CompareLimit == 10
ReportLimit == 50
WalletLength == 42
DefaultEstimatedGas == 150000

----------------------------------------------------------------------------
(* Small helpers *)

Max(a, b) == IF a >= b THEN a ELSE b
Min(a, b) == IF a <= b THEN a ELSE b

RECURSIVE SumOver(_, _)
\* Array.prototype.reduce((sum, x) => sum + f(x), 0) over a list of numbers
SumOver(s, i) == IF i > Len(s) THEN 0 ELSE s[i] + SumOver(s, i + 1)

Sum(s) == SumOver(s, 1)

\* Math.round(a / b) for a >= 0, b > 0: round half up
RoundDiv(a, b) == (2 * a + b) \div (2 * b)

\* the lists over S of length at most n
ListsUpTo(S, n) == UNION {[1..k -> S] : k \in 0..n}

----------------------------------------------------------------------------
(* Wallet identifiers: a string is the sequence of its characters *)

Chars(n, c) == [i \in 1..n |-> c]

\* walletAddress.startsWith('0x')
StartsWith0x(w) == Len(w) >= 2 /\ w[1] = "0" /\ w[2] = "x"

\* !walletAddress || !walletAddress.startsWith('0x')
BadFormat(w) == Len(w) = 0 \/ ~StartsWith0x(w)

\* walletAddress.length !== 42
BadLength(w) == Len(w) # WalletLength

WalletOk == <<"0", "x">> \o Chars(40, "1")
WalletShort == <<"0", "x", "1", "2">>
WalletLong == <<"0", "x">> \o Chars(41, "1")
WalletNoPrefix == <<"1", "x">> \o Chars(40, "1")
WalletEmpty == <<>>

Wallets == {WalletOk, WalletShort, WalletLong, WalletNoPrefix, WalletEmpty}

\* the spec's wallet format: 0x-prefixed, exactly 42 characters
WellFormed(w) == StartsWith0x(w) /\ Len(w) = WalletLength

----------------------------------------------------------------------------
(* Rows of the history provider, and their conversion *)

\* parseFloat / parseInt / new Date(s).getTime() on the strings that occur
ParseNumber(s) ==
  CASE s = "0" -> 0
    [] s = "1" -> 1
    [] s = "2" -> 2
    [] s = "3" -> 3
    [] s = "4" -> 4
    [] s = "5" -> 5
    [] s = "10" -> 10
    [] s = "1500" -> 1500
    [] s = "50" -> 50
    [] s = "80000" -> 80000
    [] s = "100000" -> 100000
    [] s = "150000" -> DefaultEstimatedGas

\* new Date(timestamp).getTime(): two spellings of one instant parse alike
DateGetTime(s) ==
  CASE s = "2024-01-01" -> 1
    [] s = "2024-01-02" -> 2
    [] s = "2024-01-02T00:00:00Z" -> 2
    [] s = "2024-01-03" -> 3
    [] s = "now" -> 9

\* a || b on strings: the empty (or absent) string is falsy
OrElse(a, b) == IF a = "" THEN b ELSE a

RowA ==
  [tx_hash |-> "0xa", block_time |-> "2024-01-02",
   token_sold_symbol |-> "WETH", token_bought_symbol |-> "USDC",
   token_sold_address |-> "0xC02a", token_bought_address |-> "0xA0b8",
   token_sold_amount |-> "2", token_bought_amount |-> "3",
   gas_used |-> "3", gas_price |-> "2",
   project |-> "Uniswap V2", amount_usd |-> "1500"]

RowB ==
  [tx_hash |-> "0xb", block_time |-> "2024-01-02T00:00:00Z",
   token_sold_symbol |-> "DAI", token_bought_symbol |-> "WETH",
   token_sold_address |-> "0x6B17", token_bought_address |-> "0xC02a",
   token_sold_amount |-> "1", token_bought_amount |-> "1",
   gas_used |-> "5", gas_price |-> "1",
   project |-> "SushiSwap", amount_usd |-> ""]

RowC ==
  [tx_hash |-> "0xc", block_time |-> "2024-01-03",
   token_sold_symbol |-> "USDC", token_bought_symbol |-> "DAI",
   token_sold_address |-> "0xA0b8", token_bought_address |-> "0x6B17",
   token_sold_amount |-> "4", token_bought_amount |-> "0",
   gas_used |-> "5", gas_price |-> "2",
   project |-> "Uniswap V3", amount_usd |-> ""]

RowD ==
  [tx_hash |-> "", block_time |-> "2024-01-01",
   token_sold_symbol |-> "WBTC", token_bought_symbol |-> "WETH",
   token_sold_address |-> "", token_bought_address |-> "",
   token_sold_amount |-> "1", token_bought_amount |-> "2",
   gas_used |-> "4", gas_price |-> "0",
   project |-> "", amount_usd |-> "10"]

RowE ==
  [tx_hash |-> "0xe", block_time |-> "",
   token_sold_symbol |-> "", token_bought_symbol |-> "DAI",
   token_sold_address |-> "0xdAC1", token_bought_address |-> "0x6B17",
   token_sold_amount |-> "", token_bought_amount |-> "5",
   gas_used |-> "", gas_price |-> "3",
   project |-> "Curve", amount_usd |-> "0"]

RowF ==
  [tx_hash |-> "0xf", block_time |-> "2024-01-03",
   token_sold_symbol |-> "USDT", token_bought_symbol |-> "WBTC",
   token_sold_address |-> "0xdAC1", token_bought_address |-> "0x2260",
   token_sold_amount |-> "5", token_bought_amount |-> "1",
   gas_used |-> "2", gas_price |-> "1",
   project |-> "Uniswap V1", amount_usd |-> "10"]

RowG ==
  [tx_hash |-> "0xg", block_time |-> "2024-01-01",
   token_sold_symbol |-> "WETH", token_bought_symbol |-> "DAI",
   token_sold_address |-> "0xC02a", token_bought_address |-> "0x6B17",
   token_sold_amount |-> "2", token_bought_amount |-> "1",
   gas_used |-> "0", gas_price |-> "3",
   project |-> "Curve", amount_usd |-> "10"]

\* the transaction of the worked example: gas_used 100000 at a price of 50
RowH ==
  [tx_hash |-> "0xh", block_time |-> "2024-01-03",
   token_sold_symbol |-> "WETH", token_bought_symbol |-> "USDC",
   token_sold_address |-> "0xC02a", token_bought_address |-> "0xA0b8",
   token_sold_amount |-> "2", token_bought_amount |-> "3",
   gas_used |-> "100000", gas_price |-> "50",
   project |-> "Uniswap V3", amount_usd |-> "1500"]

\* what Math.random() * 2, rounded to two decimals, may come to (hundredths)
SlippageDraws == {0, 200}

\* calculateSlippage, given the value the random draw rounds to
calculateSlippage(amountIn, amountOut, draw) ==
  IF amountIn = 0 \/ amountOut = 0 THEN 0 ELSE draw

\* the row => SwapTransaction mapping of getDuneData
MapRow(row, draw) ==
  [hash |-> OrElse(row.tx_hash, "unknown"),
   timestamp |-> OrElse(row.block_time, "now"),
   from_token |-> OrElse(row.token_sold_symbol, "UNKNOWN"),
   to_token |-> OrElse(row.token_bought_symbol, "UNKNOWN"),
   from_token_address |-> OrElse(row.token_sold_address, ""),
   to_token_address |-> OrElse(row.token_bought_address, ""),
   from_amount |-> ParseNumber(OrElse(row.token_sold_amount, "0")),
   to_amount |-> ParseNumber(OrElse(row.token_bought_amount, "0")),
   gas_used |-> ParseNumber(OrElse(row.gas_used, "0")),
   gas_price |-> ParseNumber(OrElse(row.gas_price, "0")),
   dex |-> OrElse(row.project, "unknown"),
   usd_value |-> ParseNumber(OrElse(row.amount_usd, "0")),
   slippage |-> calculateSlippage(
                  ParseNumber(OrElse(row.token_sold_amount, "0")),
                  ParseNumber(OrElse(row.token_bought_amount, "0")), draw)]

\* rows.map(...) with one random draw per row
MapRows(rows, draws) == [i \in 1..Len(rows) |-> MapRow(rows[i], draws[i])]

----------------------------------------------------------------------------
(* Array.prototype.sort with a comparator that orders by a key, largest    *)
(* first: the sort is stable (ECMAScript 2019), so elements with equal     *)
(* keys keep their relative order.                                         *)

\* the place of element i of a sequence whose keys are the sequence key:
\* after every element of a larger key and every earlier one of the same key
PlaceDesc(key, i) ==
  1 + Cardinality({j \in 1..Len(key) :
                     key[j] > key[i] \/ (key[j] = key[i] /\ j < i)})

\* s sorted by key[i], the key of s[i], largest first
StableSortDesc(s, key) ==
  [p \in 1..Len(s) |-> s[CHOOSE i \in 1..Len(s) : PlaceDesc(key, i) = p]]

----------------------------------------------------------------------------
(* getUserTransactions: validation, filter and sort *)

\* a filter that lets a transaction without gas through
IsValidTransactionAnyGas(tx) ==
  /\ tx.hash # ""
  /\ tx.from_token # ""
  /\ tx.to_token # ""
  /\ tx.from_amount > 0
  /\ tx.to_amount > 0

\* the filter predicate of getUserTransactions
IsValidTransaction(tx) ==
  /\ tx.hash # ""
  /\ tx.from_token # ""
  /\ tx.to_token # ""
  /\ tx.from_amount > 0
  /\ tx.to_amount > 0
  /\ tx.gas_used > 0

TimeOf(tx) == DateGetTime(tx.timestamp)

Reverse(s) == [i \in 1..Len(s) |-> s[Len(s) + 1 - i]]

\* a sort that is not stable: records of one timestamp come out reversed
SortByRecencyUnstable(txs) ==
  StableSortDesc(Reverse(txs), [i \in 1..Len(txs) |-> TimeOf(Reverse(txs)[i])])

\* validTransactions.sort((a, b) => time(b) - time(a))
SortByRecency(txs) ==
  StableSortDesc(txs, [i \in 1..Len(txs) |-> TimeOf(txs[i])])

\* what getUserTransactions returns for the transactions getDuneData gave
CleanTransactions(txs) == SortByRecency(SelectSeq(txs, IsValidTransaction))

NoOut == [kind |-> "none", rows |-> <<>>, error |-> ""]
OkOut(rows) == [kind |-> "ok", rows |-> rows, error |-> ""]
ErrOut(msg) == [kind |-> "error", rows |-> <<>>, error |-> msg]

----------------------------------------------------------------------------
(* getDuneData: execute, then poll *)

DuneIdle ==
  [pc |-> "idle", limit |-> 0, attempts |-> 0, execs |-> 0, waits |-> 0,
   polls |-> 0, hist |-> <<>>, out |-> NoOut]

\* the catch block of getDuneData wraps every failure
DuneFail(d, msg) ==
  [d EXCEPT !.pc = "done",
            !.out = ErrOut("Failed to fetch transaction data: " \o msg)]

\* the call up to its first await: the key check, then the execute request
DuneCall(limit, hasKey) ==
  IF ~hasKey
  THEN DuneFail([DuneIdle EXCEPT !.limit = limit],
                "DUNE_API_KEY not found in environment variables")
  ELSE [DuneIdle EXCEPT !.pc = "exec", !.limit = limit, !.execs = 1]

\* the execute response: a job id, after which the first 2s wait starts
DuneAfterExec(d, ok) ==
  IF ok THEN [d EXCEPT !.pc = "sleep"]
  ELSE DuneFail(d, "Network Error")

\* the 2s timer fires and the status request is issued
DuneAfterTimer(d) ==
  [d EXCEPT !.pc = "poll", !.waits = @ + 1, !.polls = @ + 1]

\* a poll loop that compares with <= and so polls once more
DuneAfterPollOffByOne(d, r) ==
  LET h == [d EXCEPT !.hist = Append(@, r.state)] IN
  IF r.state = "ERROR" THEN DuneFail(h, "Network Error")
  ELSE IF r.state = "QUERY_STATE_COMPLETED"
  THEN [h EXCEPT !.pc = "done", !.out = OkOut(r.txs)]
  ELSE IF r.state = "QUERY_STATE_FAILED"
  THEN DuneFail(h, "Dune query execution failed")
  ELSE IF d.attempts + 1 <= maxAttempts
  THEN [h EXCEPT !.pc = "sleep", !.attempts = @ + 1]
  ELSE DuneFail([h EXCEPT !.attempts = @ + 1], "Dune query execution timeout")

\* the status response r = [state, txs]; txs are the mapped rows
DuneAfterPoll(d, r) ==
  LET h == [d EXCEPT !.hist = Append(@, r.state)] IN
  IF r.state = "ERROR" THEN DuneFail(h, "Network Error")
  ELSE IF r.state = "QUERY_STATE_COMPLETED"
  THEN [h EXCEPT !.pc = "done", !.out = OkOut(r.txs)]
  ELSE IF r.state = "QUERY_STATE_FAILED"
  THEN DuneFail(h, "Dune query execution failed")
  ELSE IF d.attempts + 1 < maxAttempts
  THEN [h EXCEPT !.pc = "sleep", !.attempts = @ + 1]
  ELSE DuneFail([h EXCEPT !.attempts = @ + 1], "Dune query execution timeout")

----------------------------------------------------------------------------
(* getUserTransactions as an invocation *)

TxopIdle == [pc |-> "idle", out |-> NoOut]

\* the result of getDuneData reaches getUserTransactions
TxopOnDune(d) ==
  IF d.pc # "done" THEN [pc |-> "dune", out |-> NoOut]
  ELSE IF d.out.kind = "error"
  THEN [pc |-> "done",
        out |-> ErrOut("Failed to fetch transaction data: " \o d.out.error)]
  ELSE [pc |-> "done", out |-> OkOut(CleanTransactions(d.out.rows))]

\* the call up to its first await: the two checks, then getDuneData
TxopCall(wallet, d) ==
  IF BadFormat(wallet)
  THEN [pc |-> "done", out |-> ErrOut("Invalid wallet address format")]
  ELSE IF BadLength(wallet)
  THEN [pc |-> "done", out |-> ErrOut("Invalid wallet address length")]
  ELSE TxopOnDune(d)

\* whether getUserTransactions(wallet, ...) gets as far as getDuneData
TxopCallsDune(wallet) == ~BadFormat(wallet) /\ ~BadLength(wallet)

----------------------------------------------------------------------------
(* getOneInchQuote *)

QuoteFull ==
  [toAmount |-> "3", toTokenAmount |-> "", estimatedGas |-> "2", gas |-> "",
   hasProtocols |-> TRUE, protocols |-> <<<<"UNISWAP_V3">>>>]

QuoteCostly ==
  [toAmount |-> "", toTokenAmount |-> "1", estimatedGas |-> "", gas |-> "4",
   hasProtocols |-> TRUE, protocols |-> <<>>]

QuoteBare ==
  [toAmount |-> "", toTokenAmount |-> "", estimatedGas |-> "", gas |-> "",
   hasProtocols |-> FALSE, protocols |-> <<>>]

\* the quote of the worked example: estimatedGas 80000
QuoteExample ==
  [toAmount |-> "3", toTokenAmount |-> "", estimatedGas |-> "80000",
   gas |-> "", hasProtocols |-> FALSE, protocols |-> <<>>]

\* the OneInchQuote built from the response data
QuoteOf(data) ==
  [toAmount |-> OrElse(OrElse(data.toAmount, data.toTokenAmount), "0"),
   estimatedGas |-> OrElse(OrElse(data.estimatedGas, data.gas), "150000"),
   protocols |-> IF data.hasProtocols THEN data.protocols
                 ELSE <<<<"1inch Aggregated">>>>]

\* quote.protocols[0]?.[0] || '1inch Aggregated'
OptimalRoute(quote) ==
  IF Len(quote.protocols) >= 1 /\ Len(quote.protocols[1]) >= 1
  THEN OrElse(quote.protocols[1][1], "1inch Aggregated")
  ELSE "1inch Aggregated"

----------------------------------------------------------------------------
(* compareWithOneInch *)

NoResult == [success |-> FALSE]

CmpIdle ==
  [pc |-> "idle", wallet |-> <<>>, transactions |-> <<>>, i |-> 0,
   totalActualGas |-> 0, totalOptimalGas |-> 0, totalSlippage |-> 0,
   validComparisons |-> 0, detailedComparisons |-> <<>>,
   quotes |-> 0, log |-> <<>>, quoted |-> <<>>,
   out |-> [kind |-> "none", result |-> NoResult, error |-> ""]]

\* the tally of generateRecommendations: venues in first-seen order
DexTally(transactions) ==
  LET acc[i \in 0..Len(transactions)] ==
        IF i = 0 THEN <<>>
        ELSE LET d == transactions[i].dex
                 at == {k \in 1..Len(acc[i - 1]) : acc[i - 1][k].dex = d}
             IN IF at = {}
                THEN Append(acc[i - 1], [dex |-> d, count |-> 1])
                ELSE [k \in 1..Len(acc[i - 1]) |->
                        IF k \in at
                        THEN [acc[i - 1][k] EXCEPT !.count = @ + 1]
                        ELSE acc[i - 1][k]]
  IN acc[Len(transactions)]

CountOf(entry) == entry.count

\* a tally whose ties go to the venue seen last
MostUsedDexLastSeen(transactions) ==
  LET tally == Reverse(DexTally(transactions))
      sorted == StableSortDesc(tally, [i \in 1..Len(tally) |-> CountOf(tally[i])])
  IN IF sorted = <<>> THEN "" ELSE sorted[1].dex

\* Object.entries(tally).sort(([,a], [,b]) => b - a)[0]?.[0], "" when absent
MostUsedDex(transactions) ==
  LET tally == DexTally(transactions)
      sorted == StableSortDesc(tally, [i \in 1..Len(tally) |-> CountOf(tally[i])])
  IN IF sorted = <<>> THEN "" ELSE sorted[1].dex

IsSuboptimal(c) == c.gasDifference > 0
IsHighValue(tx) == tx.usd_value > 1000

\* generateRecommendations; the mean slippage is slipSum / slipCount
\* hundredths of a percent (0 when slipCount = 0)
generateRecommendations(transactions, gasSavingsPotential, totalActualGas, slipSum, slipCount, comparisons) ==
  (IF gasSavingsPotential > 0
   THEN <<"Consider using 1inch aggregator for better gas efficiency",
          "Potential gas savings">>
   ELSE <<"Your gas usage is already quite efficient!">>)
  \o (IF MostUsedDex(transactions) = "Uniswap V2"
      THEN <<"Consider upgrading to Uniswap V3">> ELSE <<>>)
  \o (IF slipCount > 0 /\ slipSum > 100 * slipCount
      THEN <<"Your average slippage is high - consider limit orders">>
      ELSE IF slipCount > 0 /\ 2 * slipSum > 100 * slipCount
      THEN <<"Consider adjusting slippage tolerance">>
      ELSE <<>>)
  \o (IF 10 * Len(SelectSeq(comparisons, IsSuboptimal)) > 3 * Len(comparisons)
      THEN <<"Many of your trades used suboptimal routes">> ELSE <<>>)
  \o (IF Len(SelectSeq(transactions, IsHighValue)) > 0
      THEN <<"For high-value trades, consider professional interfaces">>
      ELSE <<>>)

\* the difference without the clamp at zero
GasSavingsUnclamped(totalActualGas, totalOptimalGas) ==
  totalActualGas - totalOptimalGas

\* Math.max(0, totalActualGas - totalOptimalGas)
GasSavingsPotential(totalActualGas, totalOptimalGas) ==
  Max(0, totalActualGas - totalOptimalGas)

\* the result for a history with no transactions
EmptyComparison(wallet) ==
  [success |-> TRUE, wallet |-> wallet, totalTransactions |-> 0,
   totalActualGas |-> 0, totalOptimalGas |-> 0, gasSavingsPotential |-> 0,
   averageSlippageActual |-> 0,
   recommendations |-> <<"No transactions found for analysis">>,
   detailedComparisons |-> <<>>]

\* the code after the loop
ComparisonResult(c) ==
  LET gsp == GasSavingsPotential(c.totalActualGas, c.totalOptimalGas) IN
  [success |-> TRUE, wallet |-> c.wallet,
   totalTransactions |-> Len(c.transactions),
   totalActualGas |-> c.totalActualGas,
   totalOptimalGas |-> c.totalOptimalGas,
   gasSavingsPotential |-> gsp,
   averageSlippageActual |->
     IF c.validComparisons > 0
     THEN RoundDiv(c.totalSlippage, c.validComparisons) ELSE 0,
   recommendations |->
     generateRecommendations(c.transactions, gsp, c.totalActualGas,
                             c.totalSlippage, c.validComparisons,
                             c.detailedComparisons),
   detailedComparisons |-> c.detailedComparisons]

CmpDone(c, result) ==
  [c EXCEPT !.pc = "done",
            !.out = [kind |-> "ok", result |-> result, error |-> ""]]

CmpFail(c, msg) ==
  [c EXCEPT !.pc = "done",
            !.out = [kind |-> "error", result |-> NoResult, error |-> msg]]

HasTokenAddresses(tx) ==
  tx.from_token_address # "" /\ tx.to_token_address # ""

RECURSIVE CmpAdvance(_)
\* the for loop from transaction c.i up to its next await: transactions
\* without token addresses are skipped, the next one has its quote requested
CmpAdvance(c) ==
  IF c.i > Len(c.transactions) THEN CmpDone(c, ComparisonResult(c))
  ELSE IF ~HasTokenAddresses(c.transactions[c.i])
  THEN CmpAdvance([c EXCEPT !.i = @ + 1])
  ELSE [c EXCEPT !.pc = "quote", !.quotes = @ + 1,
                 !.log = Append(@, "quote")]

\* a loop without the pause: the next request follows the record at once
CmpOnQuoteOkNoPause(c, data) ==
  LET tx == c.transactions[c.i]
      quote == QuoteOf(data)
      actualGas == tx.gas_used * tx.gas_price
      optimalGas == ParseNumber(quote.estimatedGas) * tx.gas_price
  IN CmpAdvance([c EXCEPT
        !.i = @ + 1,
        !.totalActualGas = @ + actualGas,
        !.totalOptimalGas = @ + optimalGas,
        !.totalSlippage = @ + tx.slippage,
        !.validComparisons = @ + 1,
        !.detailedComparisons =
           Append(@, [txHash |-> tx.hash,
                      actualRoute |-> tx.dex,
                      optimalRoute |-> OptimalRoute(quote),
                      gasDifference |-> actualGas - optimalGas,
                      slippageDifference |-> tx.slippage,
                      actualAmountOut |-> tx.to_amount,
                      optimalAmountOut |-> ParseNumber(quote.toAmount)]),
        !.quoted = Append(@, [i |-> c.i, estimatedGas |->
                                ParseNumber(quote.estimatedGas)]),
        !.log = Append(@, "ok")])

\* a loop that adds the quoted gas units to the total, not their cost
CmpOnQuoteOkGasUnits(c, data) ==
  LET tx == c.transactions[c.i]
      quote == QuoteOf(data)
      actualGas == tx.gas_used * tx.gas_price
      optimalGas == ParseNumber(quote.estimatedGas) * tx.gas_price
  IN [c EXCEPT
        !.pc = "pause",
        !.totalActualGas = @ + actualGas,
        !.totalOptimalGas = @ + ParseNumber(quote.estimatedGas),
        !.totalSlippage = @ + tx.slippage,
        !.validComparisons = @ + 1,
        !.detailedComparisons =
           Append(@, [txHash |-> tx.hash,
                      actualRoute |-> tx.dex,
                      optimalRoute |-> OptimalRoute(quote),
                      gasDifference |-> actualGas - optimalGas,
                      slippageDifference |-> tx.slippage,
                      actualAmountOut |-> tx.to_amount,
                      optimalAmountOut |-> ParseNumber(quote.toAmount)]),
        !.quoted = Append(@, [i |-> c.i, estimatedGas |->
                                ParseNumber(quote.estimatedGas)]),
        !.log = Append(@, "ok")]

\* a loop that reports the running difference of the totals in each record
CmpOnQuoteOkRunningTotal(c, data) ==
  LET tx == c.transactions[c.i]
      quote == QuoteOf(data)
      actualGas == tx.gas_used * tx.gas_price
      optimalGas == ParseNumber(quote.estimatedGas) * tx.gas_price
  IN [c EXCEPT
        !.pc = "pause",
        !.totalActualGas = @ + actualGas,
        !.totalOptimalGas = @ + optimalGas,
        !.totalSlippage = @ + tx.slippage,
        !.validComparisons = @ + 1,
        !.detailedComparisons =
           Append(@, [txHash |-> tx.hash,
                      actualRoute |-> tx.dex,
                      optimalRoute |-> OptimalRoute(quote),
                      gasDifference |->
                        (c.totalActualGas + actualGas)
                          - (c.totalOptimalGas + optimalGas),
                      slippageDifference |-> tx.slippage,
                      actualAmountOut |-> tx.to_amount,
                      optimalAmountOut |-> ParseNumber(quote.toAmount)]),
        !.quoted = Append(@, [i |-> c.i, estimatedGas |->
                                ParseNumber(quote.estimatedGas)]),
        !.log = Append(@, "ok")]

\* a quote arrives: the totals grow, a record is pushed, the 100ms pause starts
CmpOnQuoteOk(c, data) ==
  LET tx == c.transactions[c.i]
      quote == QuoteOf(data)
      actualGas == tx.gas_used * tx.gas_price
      optimalGas == ParseNumber(quote.estimatedGas) * tx.gas_price
  IN [c EXCEPT
        !.pc = "pause",
        !.totalActualGas = @ + actualGas,
        !.totalOptimalGas = @ + optimalGas,
        !.totalSlippage = @ + tx.slippage,
        !.validComparisons = @ + 1,
        !.detailedComparisons =
           Append(@, [txHash |-> tx.hash,
                      actualRoute |-> tx.dex,
                      optimalRoute |-> OptimalRoute(quote),
                      gasDifference |-> actualGas - optimalGas,
                      slippageDifference |-> tx.slippage,
                      actualAmountOut |-> tx.to_amount,
                      optimalAmountOut |-> ParseNumber(quote.toAmount)]),
        !.quoted = Append(@, [i |-> c.i, estimatedGas |->
                                ParseNumber(quote.estimatedGas)]),
        !.log = Append(@, "ok")]

\* a loop without the inner catch: the failed quote ends the operation
CmpOnQuoteErrorAborts(c, kind) ==
  CmpFail([c EXCEPT !.log = Append(@, kind)],
          "Failed to perform comparison analysis: Failed to get 1inch quote")

\* the quote call throws: the inner catch logs it and the loop goes on
CmpOnQuoteError(c, kind) ==
  CmpAdvance([c EXCEPT !.i = @ + 1, !.log = Append(@, kind)])

\* the 100ms timer fires and the loop goes on
CmpOnPause(c) ==
  CmpAdvance([c EXCEPT !.i = @ + 1, !.log = Append(@, "pause")])

\* the result of getDuneData reaches compareWithOneInch
CmpOnDune(c, d) ==
  IF d.pc # "done" THEN [c EXCEPT !.pc = "dune"]
  ELSE IF d.out.kind = "error"
  THEN CmpFail(c, "Failed to perform comparison analysis: " \o d.out.error)
  ELSE IF Len(d.out.rows) = 0 THEN CmpDone(c, EmptyComparison(c.wallet))
  ELSE CmpAdvance([c EXCEPT !.transactions = d.out.rows, !.i = 1])

\* the call up to its first await: the format check, then getDuneData
CmpCall(wallet, d) ==
  IF BadFormat(wallet)
  THEN CmpFail(CmpIdle, "Invalid wallet address format")
  ELSE CmpOnDune([CmpIdle EXCEPT !.wallet = wallet], d)

\* whether compareWithOneInch(wallet) gets as far as getDuneData
CmpCallsDune(wallet) == ~BadFormat(wallet)

----------------------------------------------------------------------------
(* generateSwapReport *)

\* tx.dex.includes('V1') || tx.dex.includes('SushiSwap'), on the venue names
\* that occur
IsOutdatedDex(dex) == dex \in {"Uniswap V1", "SushiSwap"}

UsesOutdatedDex(tx) == IsOutdatedDex(tx.dex)

DexOf(tx) == tx.dex

\* new Set(transactions.map(tx => tx.dex)).size
UniqueDexes(transactions) ==
  Cardinality({transactions[i].dex : i \in 1..Len(transactions)})

\* the +5 of calculateEfficiencyScore
FocusBonus(transactions) ==
  IF UniqueDexes(transactions) <= 3 /\ Len(transactions) > 5 THEN 5 ELSE 0

\* a clamp that forgets the upper end
ClampScoreBelowOnly(num, den) == [num |-> Max(0, num), den |-> den]

\* Math.max(0, Math.min(100, score)) on a fraction num / den, den > 0
ClampScore(num, den) ==
  [num |-> Max(0, Min(100 * den, num)), den |-> den]

\* calculateEfficiencyScore: the score as an exact fraction num / den.
\* averageSlippage is in hundredths of a percent, transactions is not empty
calculateEfficiencyScore(gasSavingsPotential, totalGasSpent, averageSlippage, transactions) ==
  LET n == Len(transactions)
      g == IF totalGasSpent > 0 THEN totalGasSpent ELSE 1
      den == 10 * n * g
      gasPenalty ==
        IF totalGasSpent > 0 THEN gasSavingsPotential * 50 * 10 * n ELSE 0
      slippagePenalty == Min(averageSlippage, 300) * n * g
      outdated == Len(SelectSeq(transactions, UsesOutdatedDex))
      outdatedPenalty == outdated * 20 * 10 * g
      bonus == FocusBonus(transactions) * den
  IN ClampScore(100 * den - gasPenalty - slippagePenalty - outdatedPenalty
                  + bonus, den)

\* Math.round of a non-negative fraction
RoundScore(score) == RoundDiv(score.num, score.den)

Note(text, count) == [note |-> text, count |-> count]

SavesSignificantGas(c) == c.gasDifference > 50000
HasBetterAmountOut(c) == 100 * c.optimalAmountOut > 101 * c.actualAmountOut
IsOptimalRoute(c) == c.gasDifference <= 0

calculateRoutingAnalysis(detailedComparisons) ==
  IF Len(detailedComparisons) = 0
  THEN [optimalRoutes |-> 0, suboptimalRoutes |-> 0,
        missedOpportunities |-> <<Note("No comparison data available", 0)>>]
  ELSE
    LET optimal == Len(SelectSeq(detailedComparisons, IsOptimalRoute))
        significant == Len(SelectSeq(detailedComparisons, SavesSignificantGas))
        better == Len(SelectSeq(detailedComparisons, HasBetterAmountOut))
        missed ==
          (IF significant > 0
           THEN <<Note("transactions could have saved significant gas",
                       significant)>>
           ELSE <<>>)
          \o (IF better > 0
              THEN <<Note("transactions could have gotten better rates",
                          better)>>
              ELSE <<>>)
    IN [optimalRoutes |-> optimal,
        suboptimalRoutes |-> Len(detailedComparisons) - optimal,
        missedOpportunities |->
          IF missed = <<>>
          THEN <<Note("Your routing choices were generally optimal!", 0)>>
          ELSE missed]

\* generateComprehensiveRecommendations; the score and the mean gas price
\* are fractions, gas prices are counted in gwei
generateComprehensiveRecommendations(transactions, comparison, score, gasSpent, gasUsed, totalVolumeUSD) ==
  comparison.recommendations
  \o (IF score.num < 50 * score.den
      THEN <<"Your trading efficiency is below average">>
      ELSE IF score.num < 70 * score.den
      THEN <<"Theres room for improvement in your trading efficiency">>
      ELSE IF score.num >= 90 * score.den
      THEN <<"Excellent trading efficiency!">>
      ELSE <<>>)
  \o (IF gasUsed > 0 /\ gasSpent > 100 * gasUsed
      THEN <<"Consider timing your trades during lower gas periods">>
      ELSE IF gasUsed > 0 /\ gasSpent < 20 * gasUsed
      THEN <<"Great job timing your trades during low gas periods!">>
      ELSE <<>>)
  \o (IF totalVolumeUSD > 100000
      THEN <<"For high-volume trading, consider professional tools">>
      ELSE IF totalVolumeUSD < 1000
      THEN <<"For small trades, consider batching transactions">>
      ELSE <<>>)
  \o (IF UniqueDexes(transactions) = 1
      THEN <<"Consider diversifying across multiple DEXes">> ELSE <<>>)
  \o (IF Len(transactions) > 20
      THEN <<"Consider using DCA strategies">> ELSE <<>>)

\* the value JavaScript prints for 0 / 0
NotANumber == 0 - 1

GasCost(tx) == tx.gas_used * tx.gas_price
GasUsed(tx) == tx.gas_used

\* transactions.reduce((sum, tx) => sum + tx.gas_used * tx.gas_price, 0)
TotalGasCost(txs) == Sum([i \in 1..Len(txs) |-> GasCost(txs[i])])
\* transactions.reduce((sum, tx) => sum + tx.gas_used, 0)
TotalGasUsed(txs) == Sum([i \in 1..Len(txs) |-> GasUsed(txs[i])])

\* an empty report that keeps the starting score of 100
EmptyReportFullScore(wallet) ==
  [success |-> TRUE, wallet |-> wallet,
   summary |-> [totalSwaps |-> 0, totalVolumeUSD |-> 0,
                averageGasUsed |-> 0, mostUsedDEX |-> "N/A",
                efficiencyScore |-> 100],
   gasAnalysis |-> [totalGasSpent |-> 0, averageGasPrice |-> 0,
                    potentialSavings |-> 0, savingsPercentage |-> 0],
   routingAnalysis |->
     [optimalRoutes |-> 0, suboptimalRoutes |-> 0,
      missedOpportunities |-> <<[note |-> "No transactions found",
                                 count |-> 0]>>],
   recommendations |-> <<"Start making some swaps to get analysis!">>,
   timeRange |-> [from |-> DateGetTime("now"), to |-> DateGetTime("now")]]

\* the report for a wallet whose retrieval gave no transaction
EmptyReport(wallet) ==
  [success |-> TRUE, wallet |-> wallet,
   summary |-> [totalSwaps |-> 0, totalVolumeUSD |-> 0,
                averageGasUsed |-> 0, mostUsedDEX |-> "N/A",
                efficiencyScore |-> 0],
   gasAnalysis |-> [totalGasSpent |-> 0, averageGasPrice |-> 0,
                    potentialSavings |-> 0, savingsPercentage |-> 0],
   routingAnalysis |->
     [optimalRoutes |-> 0, suboptimalRoutes |-> 0,
      missedOpportunities |-> <<Note("No transactions found", 0)>>],
   recommendations |-> <<"Start making some swaps to get analysis!">>,
   timeRange |-> [from |-> DateGetTime("now"), to |-> DateGetTime("now")]]

\* the report assembled from the transactions, the comparison and the volume
\* (savingsPercentage in hundredths of a percent)
SwapReport(wallet, transactions, comparison, totalVolumeUSD) ==
  LET totalGasSpent == TotalGasCost(transactions)
      gasUsed == TotalGasUsed(transactions)
      score == calculateEfficiencyScore(comparison.gasSavingsPotential,
                 totalGasSpent, comparison.averageSlippageActual,
                 transactions)
      times == {TimeOf(transactions[i]) : i \in 1..Len(transactions)}
      potentialSavings == Max(0, comparison.gasSavingsPotential)
  IN
  [success |-> TRUE, wallet |-> wallet,
   summary |->
     [totalSwaps |-> Len(transactions),
      totalVolumeUSD |-> totalVolumeUSD,
      averageGasUsed |-> RoundDiv(gasUsed, Len(transactions)),
      mostUsedDEX |-> OrElse(MostUsedDex(transactions), "Unknown"),
      efficiencyScore |-> RoundScore(score)],
   gasAnalysis |->
     [totalGasSpent |-> totalGasSpent,
      averageGasPrice |->
        IF gasUsed > 0 THEN RoundDiv(totalGasSpent, gasUsed)
        ELSE NotANumber,
      potentialSavings |-> potentialSavings,
      savingsPercentage |->
        IF totalGasSpent > 0
        THEN RoundDiv(potentialSavings * 10000, totalGasSpent) ELSE 0],
   routingAnalysis |-> calculateRoutingAnalysis(comparison.detailedComparisons),
   recommendations |->
     generateComprehensiveRecommendations(transactions, comparison, score,
                                          totalGasSpent, gasUsed,
                                          totalVolumeUSD),
   timeRange |->
     [from |-> CHOOSE t \in times : \A u \in times : t <= u,
      to |-> CHOOSE t \in times : \A u \in times : t >= u]]

RepIdle ==
  [pc |-> "idle", wallet |-> <<>>, transactions |-> <<>>,
   comparison |-> NoResult, j |-> 0, totalVolume |-> 0, prices |-> 0,
   out |-> [kind |-> "none", result |-> NoResult, error |-> ""]]

RepDone(r, report) ==
  [r EXCEPT !.pc = "done",
            !.out = [kind |-> "ok", result |-> report, error |-> ""]]

RepFail(r, msg) ==
  [r EXCEPT !.pc = "done",
            !.out = [kind |-> "error", result |-> NoResult, error |-> msg]]

RECURSIVE RepAdvance(_)
\* calculateRealVolumeUSD from transaction r.j up to its next await, then the
\* rest of generateSwapReport
RepAdvance(r) ==
  IF r.j > Len(r.transactions)
  THEN RepDone(r, SwapReport(r.wallet, r.transactions, r.comparison,
                            r.totalVolume))
  ELSE IF r.transactions[r.j].usd_value > 0
  THEN RepAdvance([r EXCEPT !.totalVolume = @ + r.transactions[r.j].usd_value,
                            !.j = @ + 1])
  ELSE [r EXCEPT !.pc = "price", !.prices = @ + 1]

\* getTokenPrice returns (0 when the lookup failed)
RepOnPrice(r, tokenPrice) ==
  RepAdvance([r EXCEPT
                !.totalVolume =
                   IF tokenPrice > 0
                   THEN @ + r.transactions[r.j].from_amount * tokenPrice
                   ELSE @,
                !.j = @ + 1])

\* Promise.all([getUserTransactions, compareWithOneInch]) settles: it rejects
\* with the first rejection, and resolves when both have resolved
RepJoin(r, t, c) ==
  IF r.pc # "join" THEN r
  ELSE IF t.pc = "done" /\ t.out.kind = "error"
  THEN RepFail(r, "Failed to generate swap report: " \o t.out.error)
  ELSE IF c.pc = "done" /\ c.out.kind = "error"
  THEN RepFail(r, "Failed to generate swap report: " \o c.out.error)
  ELSE IF t.pc = "done" /\ c.pc = "done"
  THEN IF Len(t.out.rows) = 0 THEN RepDone(r, EmptyReport(r.wallet))
       ELSE RepAdvance([r EXCEPT !.transactions = t.out.rows,
                                 !.comparison = c.out.result,
                                 !.j = 1])
  ELSE r

\* the call: the format check, then both operations are started
RepCall(wallet, t, c) ==
  IF BadFormat(wallet)
  THEN RepFail(RepIdle, "Invalid wallet address format")
  ELSE RepJoin([RepIdle EXCEPT !.pc = "join", !.wallet = wallet], t, c)

----------------------------------------------------------------------------
(* The request handler for tool calls *)

NoResponse == [kind |-> "none", payload |-> NoResult]

\* a handler without the catch: the error leaves it as a protocol fault
HandlerRethrow(msg) ==
  [kind |-> "fault",
   payload |-> [success |-> FALSE, error |-> msg,
                message |-> "Internal error"]]

\* the catch block of the handler: a normal response that carries the error
HandlerCatch(msg) ==
  [kind |-> "result",
   payload |-> [success |-> FALSE, error |-> msg,
                message |-> "An error occurred while processing your request"]]

\* the response of the handler once the operation it awaits has settled
\* (NoResponse while it has not)
HandlerReturn(rq, t, c, r) ==
  IF ~rq.hasArgs
  THEN HandlerCatch("Cannot read properties of undefined")
  ELSE IF rq.name = "get_user_transactions"
  THEN IF t.pc # "done" THEN NoResponse
       ELSE IF t.out.kind = "error" THEN HandlerCatch(t.out.error)
       ELSE [kind |-> "result",
             payload |-> [success |-> TRUE, data |-> t.out.rows,
                          message |-> "Found recent swap transactions",
                          found |-> Len(t.out.rows)]]
  ELSE IF rq.name = "compare_with_1inch"
  THEN IF c.pc # "done" THEN NoResponse
       ELSE IF c.out.kind = "error" THEN HandlerCatch(c.out.error)
       ELSE [kind |-> "result", payload |-> c.out.result]
  ELSE IF rq.name = "generate_swap_report"
  THEN IF r.pc # "done" THEN NoResponse
       ELSE IF r.out.kind = "error" THEN HandlerCatch(r.out.error)
       ELSE [kind |-> "result", payload |-> r.out.result]
  ELSE HandlerCatch("Unknown tool: " \o rq.name)

ToolNames ==
  {"get_user_transactions", "compare_with_1inch", "generate_swap_report",
   "no_such_tool"}

NoRequest ==
  [phase |-> "idle", name |-> "", hasArgs |-> FALSE, walletAddress |-> <<>>,
   limit |-> 0]

----------------------------------------------------------------------------
(* The remote services *)

RawRows == {RowA, RowB, RowC, RowD, RowE}
ServerRows == {RowB, RowC, RowD}
CmpRows == {RowA, RowB, RowD}
ScoreRows == {RowA, RowB, RowD, RowF}
ReportRows == {RowB, RowC, RowG}

Profile(pending, profile, rows) ==
  [pending |-> pending, profile |-> profile, rows |-> rows]

\* the row lists the history provider may return to a query with this limit
HistoryLists(u, limit) ==
  LET lists ==
        CASE u.profile = "server" -> ListsUpTo(ServerRows, MaxRows)
          [] u.profile = "retrieval" -> ListsUpTo(RawRows, RetrMaxRows)
          [] u.profile = "compare" -> ListsUpTo(CmpRows, CmpMaxRows)
          [] OTHER -> {u.rows}
  IN {l \in lists : Len(l) <= limit}

\* the states a status request may be answered with ("ERROR": the request
\* itself fails): any of them at every poll ("free"), a settled one at the
\* first poll ("prompt"), never a settled one ("stuck"), completed at once
PollStates(u, d) ==
  CASE u.pending = "free" ->
         {"QUERY_STATE_COMPLETED", "QUERY_STATE_FAILED",
          "QUERY_STATE_EXECUTING", "ERROR"}
    [] u.pending = "prompt" ->
         {"QUERY_STATE_COMPLETED", "QUERY_STATE_FAILED", "ERROR"}
    [] u.pending = "stuck" -> {"QUERY_STATE_EXECUTING"}
    [] OTHER -> {"QUERY_STATE_COMPLETED"}

\* the status responses, the rows already mapped with their random draws
PollResponses(u, d) ==
  {[state |-> st, txs |-> <<>>] :
     st \in PollStates(u, d) \ {"QUERY_STATE_COMPLETED"}}
  \cup
  (IF "QUERY_STATE_COMPLETED" \in PollStates(u, d)
   THEN UNION {{[state |-> "QUERY_STATE_COMPLETED", txs |-> MapRows(rows, draws)] :
                  draws \in [1..Len(rows) -> SlippageDraws]} :
               rows \in HistoryLists(u, d.limit)}
   ELSE {})

ExecResponses(u) == IF u.profile = "snapshot" THEN {TRUE} ELSE BOOLEAN

QuoteResponses(u) ==
  CASE u.profile = "snapshot" -> {[kind |-> "ok", data |-> QuoteFull]}
    [] u.profile = "compare" ->
         {[kind |-> "ok", data |-> q] : q \in {QuoteFull, QuoteCostly}}
           \cup {[kind |-> k, data |-> QuoteBare] : k \in {"error", "limited"}}
    [] u.profile = "example" -> {[kind |-> "ok", data |-> QuoteExample]}
    [] u.profile \in {"report", "pair"} ->
         {[kind |-> "ok", data |-> QuoteFull],
          [kind |-> "error", data |-> QuoteBare]}
    [] OTHER ->
         {[kind |-> "ok", data |-> q] :
            q \in {QuoteFull, QuoteCostly, QuoteBare}}
           \cup {[kind |-> k, data |-> QuoteBare] : k \in {"error", "limited"}}

\* what getTokenPrice returns: the price, or 0 when the lookup failed
PriceResponses(u) == IF u.profile = "snapshot" THEN {2} ELSE {0, 2}

----------------------------------------------------------------------------
(* Actions: one per event *)

Slots == {"tx", "cmp"}

IdleDune == [s \in Slots |-> DuneIdle]

\* the state after an event: the operations as given, Promise.all and the
\* handler run on in the same turn
Settle(d2, t2, c2, r2) ==
  LET r3 == RepJoin(r2, t2, c2) IN
  /\ dune' = d2
  /\ txop' = t2
  /\ cmp' = c2
  /\ rep' = r3
  /\ resp' = IF resp.kind # "none" \/ req.phase # "active" THEN resp
             ELSE HandlerReturn(req, t2, c2, r3)

\* a poll loop whose attempt counter is one variable of the module, shared
\* by every invocation
SettleDuneSharedCounter(s, d) ==
  Settle([t \in Slots |->
            IF t = s THEN d ELSE [dune[t] EXCEPT !.attempts = d.attempts]],
         IF s = "tx" /\ txop.pc = "dune" THEN TxopOnDune(d) ELSE txop,
         IF s = "cmp" /\ cmp.pc = "dune" THEN CmpOnDune(cmp, d) ELSE cmp,
         rep)

\* a slot's getDuneData changed: its caller runs on
SettleDune(s, d) ==
  Settle([dune EXCEPT ![s] = d],
         IF s = "tx" /\ txop.pc = "dune" THEN TxopOnDune(d) ELSE txop,
         IF s = "cmp" /\ cmp.pc = "dune" THEN CmpOnDune(cmp, d) ELSE cmp,
         rep)

\* a tools/call request arrives and runs up to its first await
CallTool(name, hasArgs, wallet, limit) ==
  /\ req.phase = "idle"
  /\ LET rq == [phase |-> "active", name |-> name, hasArgs |-> hasArgs,
                walletAddress |-> wallet, limit |-> limit]
         isTx == hasArgs /\ name = "get_user_transactions"
         isCmp == hasArgs /\ name = "compare_with_1inch"
         isRep == hasArgs /\ name = "generate_swap_report"
         started == isRep /\ ~BadFormat(wallet)
         txLimit == IF isRep THEN ReportLimit
                    ELSE IF limit = 0 THEN DefaultLimit ELSE limit
         dTx == IF (isTx \/ started) /\ TxopCallsDune(wallet)
                THEN DuneCall(txLimit, env.DUNE_API_KEY) ELSE DuneIdle
         dCmp == IF (isCmp \/ started) /\ CmpCallsDune(wallet)
                 THEN DuneCall(CompareLimit, env.DUNE_API_KEY) ELSE DuneIdle
         t == IF isTx \/ started THEN TxopCall(wallet, dTx) ELSE TxopIdle
         c == IF isCmp \/ started THEN CmpCall(wallet, dCmp) ELSE CmpIdle
         r == IF isRep THEN RepCall(wallet, t, c) ELSE RepIdle
     IN /\ req' = rq
        /\ dune' = [s \in Slots |-> IF s = "tx" THEN dTx ELSE dCmp]
        /\ txop' = t
        /\ cmp' = c
        /\ rep' = r
        /\ resp' = HandlerReturn(rq, t, c, r)
  /\ UNCHANGED <<upstream, env, prev>>

\* the execute request of a getDuneData is answered
ExecResponds(s) ==
  /\ dune[s].pc = "exec"
  /\ \E ok \in ExecResponses(upstream) :
       SettleDune(s, DuneAfterExec(dune[s], ok))
  /\ UNCHANGED <<upstream, env, req, prev>>

\* the 2s timer of a getDuneData fires
PollTimerFires(s) ==
  /\ dune[s].pc = "sleep"
  /\ SettleDune(s, DuneAfterTimer(dune[s]))
  /\ UNCHANGED <<upstream, env, req, prev>>

\* the status request of a getDuneData is answered
PollResponds(s) ==
  /\ dune[s].pc = "poll"
  /\ \E r \in PollResponses(upstream, dune[s]) :
       SettleDune(s, DuneAfterPoll(dune[s], r))
  /\ UNCHANGED <<upstream, env, req, prev>>

\* the quote request of compareWithOneInch is answered
QuoteResponds ==
  /\ cmp.pc = "quote"
  /\ \E q \in QuoteResponses(upstream) :
       Settle(dune, txop,
              IF q.kind = "ok" THEN CmpOnQuoteOk(cmp, q.data)
              ELSE CmpOnQuoteError(cmp, q.kind),
              rep)
  /\ UNCHANGED <<upstream, env, req, prev>>

\* the 100ms timer of compareWithOneInch fires
PauseTimerFires ==
  /\ cmp.pc = "pause"
  /\ Settle(dune, txop, CmpOnPause(cmp), rep)
  /\ UNCHANGED <<upstream, env, req, prev>>

\* the price request of calculateRealVolumeUSD is answered
PriceResponds ==
  /\ rep.pc = "price"
  /\ \E p \in PriceResponses(upstream) :
       Settle(dune, txop, cmp, RepOnPrice(rep, p))
  /\ UNCHANGED <<upstream, env, req, prev>>

----------------------------------------------------------------------------
(* The server: one request, any tool, any wallet *)

Idle ==
  /\ req = NoRequest
  /\ dune = IdleDune
  /\ txop = TxopIdle
  /\ cmp = CmpIdle
  /\ rep = RepIdle
  /\ resp = NoResponse
  /\ prev = NoResult

Init ==
  /\ upstream \in {Profile(p, "server", <<>>) : p \in {"prompt", "stuck"}}
  /\ env \in {[DUNE_API_KEY |-> k] : k \in BOOLEAN}
  /\ Idle

Request ==
  \E name \in ToolNames, hasArgs \in BOOLEAN, wallet \in Wallets,
     limit \in {0, 1} :
    /\ hasArgs \/ (wallet = WalletEmpty /\ limit = 0)
    /\ CallTool(name, hasArgs, wallet, limit)

ExecResponse == \E s \in Slots : ExecResponds(s)
PollTimer == \E s \in Slots : PollTimerFires(s)
PollResponse == \E s \in Slots : PollResponds(s)

Next ==
  \/ Request
  \/ ExecResponse
  \/ PollTimer
  \/ PollResponse
  \/ QuoteResponds
  \/ PauseTimerFires
  \/ PriceResponds

Spec == Init /\ [][Next]_vars

----------------------------------------------------------------------------
(* Transaction retrieval alone: get_user_transactions for a valid wallet,   *)
(* the history ready at the first poll (RetrievalSpec), or each poll        *)
(* answered in any way (PollSpec)                                           *)

RetrInit ==
  /\ upstream = Profile("ready", "retrieval", <<>>)
  /\ env = [DUNE_API_KEY |-> TRUE]
  /\ Idle

PollInit ==
  /\ upstream = Profile("free", "server", <<>>)
  /\ env = [DUNE_API_KEY |-> TRUE]
  /\ Idle

RetrRequest ==
  \E limit \in {0, 2} :
    CallTool("get_user_transactions", TRUE, WalletOk, limit)

RetrNext ==
  \/ RetrRequest
  \/ ExecResponds("tx")
  \/ PollTimerFires("tx")
  \/ PollResponds("tx")

RetrievalSpec == RetrInit /\ [][RetrNext]_vars

PollSpec == PollInit /\ [][RetrNext]_vars

----------------------------------------------------------------------------
(* Properties of getDuneData *)

Wrapped(msg) == "Failed to fetch transaction data: " \o msg

\* the execute call of slot s has returned a job id
JobStarted(s) == dune[s].execs = 1 /\ dune[s].waits >= 1

Settled(st) == st \in {"QUERY_STATE_COMPLETED", "QUERY_STATE_FAILED"}

\* every status response before the last one left the query running
OnlyLastSettles(h) ==
  \A i \in 1..(Len(h) - 1) : ~Settled(h[i]) /\ h[i] # "ERROR"

ReturnsRows(d) ==
  /\ d.out.kind = "ok"
  /\ Len(d.hist) >= 1
  /\ d.hist[Len(d.hist)] = "QUERY_STATE_COMPLETED"
  /\ OnlyLastSettles(d.hist)

FailsExecution(d) ==
  /\ d.out.kind = "error"
  /\ d.out.error = Wrapped("Dune query execution failed")
  /\ Len(d.hist) >= 1
  /\ d.hist[Len(d.hist)] = "QUERY_STATE_FAILED"
  /\ OnlyLastSettles(d.hist)
  /\ d.polls = Len(d.hist)

FailsTimeout(d) ==
  /\ d.out.kind = "error"
  /\ d.out.error = Wrapped("Dune query execution timeout")
  /\ Len(d.hist) = maxAttempts
  /\ \A i \in 1..Len(d.hist) : ~Settled(d.hist[i]) /\ d.hist[i] # "ERROR"

FailsTransport(d) ==
  /\ d.out.kind = "error"
  /\ d.out.error = Wrapped("Network Error")
  /\ Len(d.hist) >= 1
  /\ d.hist[Len(d.hist)] = "ERROR"
  /\ OnlyLastSettles(d.hist)
  /\ d.polls = Len(d.hist)

Exclusive(outcomes) == Cardinality({i \in DOMAIN outcomes : outcomes[i]}) = 1

\* what holds of the poll loop at every moment
PollDiscipline(s) ==
  LET d == dune[s] IN
  /\ d.polls <= maxAttempts
  /\ d.waits <= maxAttempts
  /\ d.pc = "sleep" => d.waits = d.polls /\ Len(d.hist) = d.polls
  /\ d.pc = "poll" => d.waits = d.polls /\ Len(d.hist) = d.polls - 1
  /\ d.pc = "done" => d.waits = d.polls /\ Len(d.hist) = d.polls
  /\ d.out.kind = "error" => d.out.rows = <<>>
  /\ d.pc \in {"sleep", "poll"} =>
       ENABLED (PollTimerFires(s) \/ PollResponds(s))

\* C2 as stated: once the execute call has returned a job id, getDuneData
\* ends in exactly one of three ways (the rows at the first completed poll,
\* an execution error at the first failed poll, a timeout after 30 polls that
\* saw neither), never issues more than 30 status requests, waits 2s before
\* each, and returns no rows when it fails
C2_ThreeOutcomes ==
  \A s \in Slots :
    /\ PollDiscipline(s)
    /\ (JobStarted(s) /\ dune[s].pc = "done") =>
         Exclusive(<<ReturnsRows(dune[s]), FailsExecution(dune[s]),
                     FailsTimeout(dune[s])>>)

\* C2, amended: the loop has a fourth way to end, the status request itself
\* failing, which ends it at once with that error; otherwise as stated
C2_FourOutcomes ==
  \A s \in Slots :
    /\ PollDiscipline(s)
    /\ (JobStarted(s) /\ dune[s].pc = "done") =>
         Exclusive(<<ReturnsRows(dune[s]), FailsExecution(dune[s]),
                     FailsTimeout(dune[s]), FailsTransport(dune[s])>>)

\* a run that timed out after 30 polls
C2_Witness ==
  /\ JobStarted("tx")
  /\ dune["tx"].pc = "done"
  /\ FailsTimeout(dune["tx"])
  /\ dune["tx"].polls = maxAttempts

----------------------------------------------------------------------------
(* Properties of getUserTransactions *)

HasPositiveAmounts(tx) ==
  tx.from_amount > 0 /\ tx.to_amount > 0 /\ tx.gas_used > 0

IsComplete(tx) ==
  HasPositiveAmounts(tx) /\ tx.hash # "" /\ tx.from_token # ""
    /\ tx.to_token # ""

AtTime(txs, t) == LET At(tx) == TimeOf(tx) = t IN SelectSeq(txs, At)

CompleteAtTime(txs, t) ==
  LET At(tx) == IsComplete(tx) /\ TimeOf(tx) = t IN SelectSeq(txs, At)

\* the retrieval of the request has returned a list
Retrieved == txop.pc = "done" /\ txop.out.kind = "ok"

\* C4: the list getUserTransactions returns holds no record with a
\* non-positive from_amount, to_amount or gas_used, holds every complete
\* record of the provider, is sorted by timestamp, latest first, and keeps
\* records of one timestamp in the provider's order
C4_FilteredAndSorted ==
  Retrieved =>
    LET given == dune["tx"].out.rows
        out == txop.out.rows
    IN /\ \A i \in 1..Len(out) : HasPositiveAmounts(out[i])
       /\ \A i \in 1..(Len(out) - 1) : TimeOf(out[i]) >= TimeOf(out[i + 1])
       /\ \A t \in {TimeOf(given[i]) : i \in 1..Len(given)} :
            AtTime(out, t) = CompleteAtTime(given, t)
       /\ \A i \in 1..Len(out) :
            \E k \in 1..Len(given) : given[k] = out[i]

\* three complete rows arrive oldest first, the two later ones at one
\* instant: they are moved to the front and keep the provider's order
C4_Witness ==
  /\ Retrieved
  /\ Len(dune["tx"].out.rows) = 3
  /\ Len(txop.out.rows) = 3
  /\ txop.out.rows # dune["tx"].out.rows
  /\ txop.out.rows[1] # txop.out.rows[2]
  /\ TimeOf(txop.out.rows[1]) = TimeOf(txop.out.rows[2])
  /\ TimeOf(txop.out.rows[2]) > TimeOf(txop.out.rows[3])

\* an incomplete row is dropped and the two others change places
C4_DropWitness ==
  /\ Retrieved
  /\ Len(dune["tx"].out.rows) = 3
  /\ Len(txop.out.rows) = 2
  /\ txop.out.rows # SelectSeq(dune["tx"].out.rows, IsValidTransaction)
  /\ TimeOf(txop.out.rows[1]) > TimeOf(txop.out.rows[2])

----------------------------------------------------------------------------
(* The comparison alone: compare_with_1inch for a valid wallet, the history *)
(* ready at the first poll, each quote request answered in any way; or the  *)
(* history and the quote of the worked example                              *)

CmpInit ==
  /\ upstream \in {Profile("ready", "compare", <<>>),
                   Profile("ready", "example", <<RowH>>)}
  /\ env = [DUNE_API_KEY |-> TRUE]
  /\ Idle

CmpRequest == CallTool("compare_with_1inch", TRUE, WalletOk, 0)

CmpNext ==
  \/ CmpRequest
  \/ ExecResponds("cmp")
  \/ PollTimerFires("cmp")
  \/ PollResponds("cmp")
  \/ QuoteResponds
  \/ PauseTimerFires

CompareSpec == CmpInit /\ [][CmpNext]_vars

----------------------------------------------------------------------------
(* Properties of compareWithOneInch *)

\* compareWithOneInch has returned a result
Compared == cmp.pc = "done" /\ cmp.out.kind = "ok"

IsQuoteFailure(e) == e \in {"error", "limited"}
IsQuoteAnswer(e) == e \in {"ok", "error", "limited"}

\* the answers to the quote requests, in the order of the requests
QuoteAnswers == SelectSeq(cmp.log, IsQuoteAnswer)

AllHaveAddresses ==
  \A i \in 1..Len(cmp.transactions) : HasTokenAddresses(cmp.transactions[i])

\* the positions of the transactions whose quote succeeded
Quoted == {i \in 1..Len(QuoteAnswers) : QuoteAnswers[i] = "ok"}

\* C3: with token addresses on every transaction and the quote failing for
\* k of the n, the operation returns, detailedComparisons has n - k records,
\* one per quoted transaction in retrieval order, and only the quoted
\* transactions count in the gas totals and the slippage mean
C3_PartialFailure ==
  /\ (cmp.pc = "done" /\ dune["cmp"].out.kind = "ok") => cmp.out.kind = "ok"
  /\ (Compared /\ AllHaveAddresses /\ Len(cmp.transactions) > 0) =>
       LET txs == cmp.transactions
           n == Len(txs)
           k == Len(SelectSeq(cmp.log, IsQuoteFailure))
           res == cmp.out.result
           recs == res.detailedComparisons
           kept == LET acc[i \in 0..n] ==
                         IF i = 0 THEN <<>>
                         ELSE IF i \in Quoted THEN Append(acc[i - 1], txs[i])
                         ELSE acc[i - 1]
                   IN acc[n]
       IN /\ Len(QuoteAnswers) = n
          /\ Len(recs) = n - k
          /\ Len(kept) = n - k
          /\ \A i \in 1..Len(recs) :
               /\ recs[i].txHash = kept[i].hash
               /\ recs[i].actualAmountOut = kept[i].to_amount
          /\ res.totalActualGas = TotalGasCost(kept)
          /\ res.totalActualGas - res.totalOptimalGas
               = Sum([i \in 1..Len(recs) |-> recs[i].gasDifference])
          /\ res.averageSlippageActual =
               IF n - k = 0 THEN 0
               ELSE RoundDiv(Sum([i \in 1..Len(kept) |-> kept[i].slippage]),
                             n - k)

\* three transactions, the quote of the second fails, two records come back
C3_Witness ==
  /\ Compared
  /\ AllHaveAddresses
  /\ Len(cmp.transactions) = 3
  /\ QuoteAnswers = <<"ok", "error", "ok">>
  /\ Len(cmp.out.result.detailedComparisons) = 2
  /\ cmp.out.result.totalActualGas > 0

\* C5: the result has gasSavingsPotential = max(0, totalActualGas -
\* totalOptimalGas), which is never negative
C5_SavingsClamped ==
  Compared =>
    LET res == cmp.out.result IN
    /\ res.gasSavingsPotential >= 0
    /\ res.totalActualGas >= res.totalOptimalGas =>
         res.gasSavingsPotential = res.totalActualGas - res.totalOptimalGas
    /\ res.totalActualGas < res.totalOptimalGas =>
         res.gasSavingsPotential = 0

\* the optimal total exceeds the actual total, after a skipped and a failed
\* transaction
C5_Witness ==
  /\ Compared
  /\ cmp.out.result.totalOptimalGas > cmp.out.result.totalActualGas
  /\ cmp.out.result.gasSavingsPotential = 0
  /\ \E i \in 1..Len(cmp.transactions) :
       ~HasTokenAddresses(cmp.transactions[i])
  /\ \E i \in 1..Len(cmp.log) : IsQuoteFailure(cmp.log[i])

\* quote requests are issued one at a time: each is answered before the next
Sequential ==
  \A i \in 1..Len(cmp.log) :
    cmp.log[i] = "quote" =>
      /\ i < Len(cmp.log) => IsQuoteAnswer(cmp.log[i + 1])
      /\ i = Len(cmp.log) => cmp.pc = "quote"

\* C10 as stated: requests are sequential, and the 100ms pause has elapsed
\* between the end of any quote request, whatever its outcome, and the issue
\* of the next
C10_PauseAfterEveryQuote ==
  /\ Sequential
  /\ \A i \in 2..Len(cmp.log) :
       cmp.log[i] = "quote" => cmp.log[i - 1] = "pause"

\* C10, amended: requests are sequential; the 100ms pause follows each quote
\* request that succeeded, and it alone: after a failed or rate-limited
\* request the next one is issued with no pause
C10_PauseAfterSuccess ==
  /\ Sequential
  /\ \A i \in 1..Len(cmp.log) :
       /\ (cmp.log[i] = "ok" /\ i < Len(cmp.log)) => cmp.log[i + 1] = "pause"
       /\ (cmp.log[i] = "ok" /\ i = Len(cmp.log)) => cmp.pc = "pause"
       /\ (cmp.log[i] = "pause" /\ i > 1) => cmp.log[i - 1] = "ok"
       /\ (IsQuoteFailure(cmp.log[i]) /\ i < Len(cmp.log)) =>
            cmp.log[i + 1] = "quote"

\* a quote succeeds and is followed by the pause, the next is rate-limited
\* and is followed at once by the third request
C10_Witness ==
  /\ Len(cmp.log) >= 6
  /\ SubSeq(cmp.log, 1, 6) = <<"quote", "ok", "pause", "quote", "limited", "quote">>

----------------------------------------------------------------------------
(* The report computation alone: generateSwapReport from the point where    *)
(* Promise.all settles, for any retrieved list and any comparison totals    *)

\* a ComparisonResult with the given savings and mean slippage
ComparisonWith(gasSavingsPotential, averageSlippage) ==
  [success |-> TRUE, wallet |-> WalletOk, totalTransactions |-> 1,
   totalActualGas |-> gasSavingsPotential, totalOptimalGas |-> 0,
   gasSavingsPotential |-> gasSavingsPotential,
   averageSlippageActual |-> averageSlippage,
   recommendations |-> <<>>, detailedComparisons |-> <<>>]

NoDraws(rows) == [i \in 1..Len(rows) |-> 0]

ScoreInit ==
  /\ upstream = Profile("ready", "snapshot", <<>>)
  /\ env = [DUNE_API_KEY |-> TRUE]
  /\ req = [phase |-> "active", name |-> "generate_swap_report",
            hasArgs |-> TRUE, walletAddress |-> WalletOk, limit |-> 0]
  /\ dune = IdleDune
  /\ \E rows \in ListsUpTo(ScoreRows, ScoreMaxTx) :
       txop = [pc |-> "done",
               out |-> OkOut(CleanTransactions(MapRows(rows, NoDraws(rows))))]
  /\ \E g \in {0, 3, 40}, slip \in {0, 200} :
       cmp = CmpDone([CmpIdle EXCEPT !.wallet = WalletOk],
                     ComparisonWith(g, slip))
  /\ rep = [RepIdle EXCEPT !.pc = "join", !.wallet = WalletOk]
  /\ resp = NoResponse
  /\ prev = NoResult

\* Promise.all settles and the report is computed up to its next await
Assemble ==
  /\ rep.pc = "join"
  /\ Settle(dune, txop, cmp, rep)
  /\ UNCHANGED <<upstream, env, req, prev>>

ScoreNext == Assemble \/ PriceResponds

ScoreSpec == ScoreInit /\ [][ScoreNext]_vars

\* generateSwapReport has returned a report
Reported == rep.pc = "done" /\ rep.out.kind = "ok"

\* C6: the efficiencyScore of every report lies in [0, 100]
C6_ScoreInRange ==
  Reported =>
    /\ rep.out.result.summary.efficiencyScore >= 0
    /\ rep.out.result.summary.efficiencyScore <= 100

\* more than five transactions on at most three venues, nothing to deduct:
\* the bonus would give 105 and the report says 100
C6_Witness ==
  /\ Reported
  /\ Len(rep.transactions) > 5
  /\ FocusBonus(rep.transactions) = 5
  /\ rep.comparison.gasSavingsPotential = 0
  /\ rep.comparison.averageSlippageActual = 0
  /\ Len(SelectSeq(rep.transactions, UsesOutdatedDex)) = 0
  /\ rep.out.result.summary.efficiencyScore = 100

\* savings far above the gas spent: the penalties would go below 0
C6_FloorWitness ==
  /\ Reported
  /\ Len(rep.transactions) > 0
  /\ 50 * rep.comparison.gasSavingsPotential
       > 100 * rep.out.result.gasAnalysis.totalGasSpent
  /\ rep.out.result.gasAnalysis.totalGasSpent > 0
  /\ rep.out.result.summary.efficiencyScore = 0

----------------------------------------------------------------------------
(* Two invocations of generate_swap_report against one upstream snapshot:   *)
(* the same rows, the same quote and the same price on every request        *)

SnapInit ==
  /\ upstream \in {Profile("ready", "snapshot", rows) :
                     rows \in ListsUpTo(RawRows, MaxRows)}
  /\ env = [DUNE_API_KEY |-> TRUE]
  /\ Idle

SnapRequest == CallTool("generate_swap_report", TRUE, WalletOk, 0)

\* the first report has been returned and everything it started has ended:
\* the client keeps the report and the server is ready for the next request
Reinvoke ==
  /\ prev = NoResult
  /\ resp.kind = "result"
  /\ resp.payload.success
  /\ txop.pc = "done"
  /\ cmp.pc = "done"
  /\ prev' = resp.payload
  /\ req' = NoRequest
  /\ dune' = IdleDune
  /\ txop' = TxopIdle
  /\ cmp' = CmpIdle
  /\ rep' = RepIdle
  /\ resp' = NoResponse
  /\ UNCHANGED <<upstream, env>>

SnapNext ==
  \/ SnapRequest
  \/ ExecResponse
  \/ PollTimer
  \/ PollResponse
  \/ QuoteResponds
  \/ PauseTimerFires
  \/ PriceResponds
  \/ Reinvoke

SnapshotSpec == SnapInit /\ [][SnapNext]_vars

\* C9: against one upstream snapshot, the second report has the summary,
\* gasAnalysis and routingAnalysis of the first
C9_Idempotent ==
  (prev # NoResult /\ resp.kind = "result" /\ resp.payload.success) =>
    /\ resp.payload.summary = prev.summary
    /\ resp.payload.gasAnalysis = prev.gasAnalysis
    /\ resp.payload.routingAnalysis = prev.routingAnalysis

----------------------------------------------------------------------------
(* Properties of the server *)

Tools ==
  {"get_user_transactions", "compare_with_1inch", "generate_swap_report"}

\* the requests one of the three operations is invoked for
Invoked == req.phase = "active" /\ req.hasArgs /\ req.name \in Tools

\* outbound requests issued so far: execute, status, quote and price
NetCalls ==
  dune["tx"].execs + dune["tx"].polls + dune["cmp"].execs
    + dune["cmp"].polls + cmp.quotes + rep.prices

IsInvalidInput(msg) ==
  msg \in {"Invalid wallet address format", "Invalid wallet address length"}

\* C1: for a wallet that is not a 0x-prefixed string of 42 characters, each
\* operation fails with an invalid-input error, and no outbound request has
\* been issued before that failure
C1_InvalidInputBeforeNetwork ==
  (Invoked /\ ~WellFormed(req.walletAddress)) =>
    /\ resp.kind = "none" => NetCalls = 0
    /\ resp.kind # "none" =>
         /\ ~resp.payload.success
         /\ IsInvalidInput(resp.payload.error)
         /\ NetCalls = 0

\* every getDuneData of the request returned no transaction
EmptyHistory ==
  /\ Invoked
  /\ WellFormed(req.walletAddress)
  /\ \/ /\ req.name = "compare_with_1inch"
        /\ dune["cmp"].out.kind = "ok" /\ dune["cmp"].out.rows = <<>>
     \/ /\ req.name = "generate_swap_report"
        /\ dune["cmp"].out.kind = "ok" /\ dune["cmp"].out.rows = <<>>
        /\ dune["tx"].out.kind = "ok" /\ dune["tx"].out.rows = <<>>

\* C7: when the history holds no transaction for a valid wallet, both
\* operations return success:true with every number zero, no detailed
\* comparison and one advisory message, and no quote or price request is made
C7_EmptyHistory ==
  EmptyHistory =>
    /\ cmp.quotes = 0
    /\ rep.prices = 0
    /\ resp.kind = "result"
    /\ resp.payload.success
    /\ Len(resp.payload.recommendations) = 1
    /\ cmp.out.kind = "ok"
    /\ cmp.out.result.detailedComparisons = <<>>
    /\ cmp.out.result.totalTransactions = 0
    /\ cmp.out.result.totalActualGas = 0
    /\ cmp.out.result.totalOptimalGas = 0
    /\ cmp.out.result.gasSavingsPotential = 0
    /\ cmp.out.result.averageSlippageActual = 0
    /\ req.name = "compare_with_1inch" => resp.payload = cmp.out.result
    /\ req.name = "generate_swap_report" =>
         /\ resp.payload.summary.totalSwaps = 0
         /\ resp.payload.summary.totalVolumeUSD = 0
         /\ resp.payload.summary.averageGasUsed = 0
         /\ resp.payload.summary.efficiencyScore = 0
         /\ resp.payload.gasAnalysis.totalGasSpent = 0
         /\ resp.payload.gasAnalysis.averageGasPrice = 0
         /\ resp.payload.gasAnalysis.potentialSavings = 0
         /\ resp.payload.gasAnalysis.savingsPercentage = 0
         /\ resp.payload.routingAnalysis.optimalRoutes = 0
         /\ resp.payload.routingAnalysis.suboptimalRoutes = 0

\* the report of a wallet without history, after both retrievals polled
C7_Witness ==
  /\ EmptyHistory
  /\ req.name = "generate_swap_report"
  /\ dune["tx"].polls = 1
  /\ dune["cmp"].polls = 1
  /\ resp.kind = "result"
  /\ resp.payload.success

\* the operation the request invoked has ended, and how
OperationEnded ==
  \/ req.name = "get_user_transactions" /\ txop.pc = "done"
  \/ req.name = "compare_with_1inch" /\ cmp.pc = "done"
  \/ req.name = "generate_swap_report" /\ rep.pc = "done"

OperationError ==
  CASE req.name = "get_user_transactions" -> txop.out
    [] req.name = "compare_with_1inch" -> cmp.out
    [] req.name = "generate_swap_report" -> rep.out

\* C8: whatever makes the invoked operation fail, the handler returns a
\* normal response {success:false, error, message}, never a protocol fault,
\* and returns success:true only when the operation completed
C8_FailuresAreResponses ==
  /\ resp.kind \in {"none", "result"}
  /\ (req.phase = "active" /\ (~req.hasArgs \/ req.name \notin Tools)) =>
       (resp.kind = "result" /\ ~resp.payload.success)
  /\ (Invoked /\ OperationEnded) =>
       /\ resp.kind = "result"
       /\ OperationError.kind = "error" =>
            resp.payload =
              [success |-> FALSE, error |-> OperationError.error,
               message |-> "An error occurred while processing your request"]
  /\ (resp.kind = "result" /\ resp.payload.success) =>
       (Invoked /\ OperationEnded /\ OperationError.kind = "ok")

\* the retrieval times out after 30 polls and the caller gets success:false
C8_Witness ==
  /\ Invoked
  /\ req.name = "get_user_transactions"
  /\ dune["tx"].polls = maxAttempts
  /\ resp.kind = "result"
  /\ ~resp.payload.success
  /\ resp.payload.error =
       Wrapped(Wrapped("Dune query execution timeout"))

----------------------------------------------------------------------------
(* The report alone: generate_swap_report for a valid wallet whose history  *)
(* is the same list of rows for both retrievals; quotes and prices answer   *)
(* in any way                                                               *)

ReportInit ==
  /\ upstream \in {Profile("ready", "report", rows) :
                     rows \in ListsUpTo(ReportRows, RepMaxRows)}
  /\ env = [DUNE_API_KEY |-> TRUE]
  /\ Idle

ReportRequest == CallTool("generate_swap_report", TRUE, WalletOk, 0)

ReportNext ==
  \/ ReportRequest
  \/ ExecResponse
  \/ PollTimer
  \/ PollResponse
  \/ QuoteResponds
  \/ PauseTimerFires
  \/ PriceResponds

ReportSpec == ReportInit /\ [][ReportNext]_vars

\* generateSwapReport is past the empty check: it works on retrieved rows
PastEmptyCheck == rep.pc \in {"price", "done"} /\ rep.transactions # <<>>

\* the history the retrieval was given is not empty and has no gas in any row
AllZeroGas ==
  /\ dune["tx"].out.kind = "ok"
  /\ Len(dune["tx"].out.rows) > 0
  /\ \A i \in 1..Len(dune["tx"].out.rows) : dune["tx"].out.rows[i].gas_used = 0

\* C11: wherever generateSwapReport divides by the total gas used, that total
\* is strictly positive; no report has a NaN averageGasPrice, and a history
\* whose rows all have zero gas_used gives the zero report
C11_NoDivisionByZero ==
  /\ PastEmptyCheck => TotalGasUsed(rep.transactions) > 0
  /\ Reported => rep.out.result.gasAnalysis.averageGasPrice # NotANumber
  /\ (Reported /\ AllZeroGas) => rep.out.result = EmptyReport(rep.wallet)

\* a history of rows without gas, which the comparison did count, reported
\* as the zero report
C11_Witness ==
  /\ Reported
  /\ AllZeroGas
  /\ cmp.out.result.totalTransactions = Len(dune["tx"].out.rows)
  /\ rep.out.result.gasAnalysis.averageGasPrice = 0

----------------------------------------------------------------------------
(* The gas totals of compareWithOneInch *)

\* the position of the j-th transaction that has both token addresses
AddressedAt(j) ==
  CHOOSE i \in 1..Len(cmp.transactions) :
    /\ HasTokenAddresses(cmp.transactions[i])
    /\ Cardinality({k \in 1..i : HasTokenAddresses(cmp.transactions[k])}) = j

\* the transactions that had both token addresses and a successful quote
QuotedTransactions == {AddressedAt(j) : j \in Quoted}

\* C12: totalActualGas is the sum of gas_used x gas_price and totalOptimalGas
\* the sum of the quoted estimatedGas x gas_price, over exactly the
\* transactions with both token addresses and a successful quote; gas_used
\* 100000 at price 50 with 80000 quoted gives 5000000, 4000000 and 1000000
C12_GasTotals ==
  Compared =>
    LET txs == cmp.transactions
        q == cmp.quoted
        res == cmp.out.result
    IN /\ {q[k].i : k \in 1..Len(q)} = QuotedTransactions
       /\ Len(q) = Cardinality(QuotedTransactions)
       /\ res.totalActualGas =
            Sum([k \in 1..Len(q) |->
                   txs[q[k].i].gas_used * txs[q[k].i].gas_price])
       /\ res.totalOptimalGas =
            Sum([k \in 1..Len(q) |->
                   q[k].estimatedGas * txs[q[k].i].gas_price])
       /\ (Len(txs) = 1 /\ Len(q) = 1 /\ txs[1].gas_used = 100000
             /\ txs[1].gas_price = 50 /\ q[1].estimatedGas = 80000) =>
            /\ res.totalActualGas = 5000000
            /\ res.totalOptimalGas = 4000000
            /\ res.gasSavingsPotential = 1000000

\* the worked example
C12_Witness ==
  /\ Compared
  /\ Len(cmp.transactions) = 1
  /\ cmp.transactions[1].gas_used = 100000
  /\ cmp.transactions[1].gas_price = 50
  /\ cmp.quoted = <<[i |-> 1, estimatedGas |-> 80000]>>
  /\ cmp.out.result.totalActualGas = 5000000
  /\ cmp.out.result.totalOptimalGas = 4000000
  /\ cmp.out.result.gasSavingsPotential = 1000000

\* three transactions: the first without addresses, the quote of the second
\* fails, only the third counts in the totals
C12_SkipWitness ==
  /\ Compared
  /\ Len(cmp.transactions) = 3
  /\ QuotedTransactions = {3}
  /\ ~HasTokenAddresses(cmp.transactions[1])
  /\ cmp.out.result.totalActualGas = GasCost(cmp.transactions[3])
  /\ cmp.out.result.totalActualGas > 0

----------------------------------------------------------------------------
(* generateRecommendations alone: the code after the loop of                *)
(* compareWithOneInch, run on one list of transactions and comparison       *)
(* records, and run again on the same records in another order              *)

RecRows == {RowA, RowB}

\* a comparison record with the given gas difference
RecordWith(gasDifference) ==
  [txHash |-> "0xa", actualRoute |-> "Uniswap V2",
   optimalRoute |-> "1inch Aggregated", gasDifference |-> gasDifference,
   slippageDifference |-> 0, actualAmountOut |-> 3, optimalAmountOut |-> 3]

\* what the loop made of a transaction: no record (skipped, or its quote
\* failed), a record in favour of the quote, or one against it
RecordKinds == {"none", "dear", "cheap"}

IsRecorded(kind) == kind # "none"

\* the comparison records of the transactions, in the order of the
\* transactions
RecordsOf(kinds) ==
  LET recorded == SelectSeq(kinds, IsRecorded) IN
  [k \in 1..Len(recorded) |->
     RecordWith(IF recorded[k] = "dear" THEN 1 ELSE 0)]

\* the totals and the slippage sum and count the loop may end with
RecTotals == {<<0, 0, 0, 0>>, <<10, 4, 150, 1>>, <<4, 10, 60, 1>>}

\* the orders in which a list of n elements can be given again
Orders(n) == {p \in [1..n -> 1..n] : \A i, j \in 1..n : p[i] = p[j] => i = j}

Reordered(s, p) == [i \in 1..Len(s) |-> s[p[i]]]

\* the comparison records in their other order, waiting for the second run
OtherOrder(comparisons) ==
  [success |-> FALSE, detailedComparisons |-> comparisons]

\* the transactions in their other order
OtherTransactions == MapRows(upstream.rows, NoDraws(upstream.rows))

RecInit ==
  /\ env = [DUNE_API_KEY |-> TRUE]
  /\ req = NoRequest
  /\ dune = IdleDune
  /\ txop = TxopIdle
  /\ rep = RepIdle
  /\ resp = NoResponse
  /\ \E rows \in ListsUpTo(RecRows, RecMaxTx) :
       \E kinds \in [1..Len(rows) -> RecordKinds] :
         \E p \in Orders(Len(rows)), totals \in RecTotals :
             LET txs == MapRows(rows, NoDraws(rows)) IN
             /\ upstream = Profile("ready", "recommend", Reordered(rows, p))
             /\ cmp = [CmpIdle EXCEPT
                         !.pc = "recommend", !.wallet = WalletOk,
                         !.transactions = txs, !.i = Len(txs) + 1,
                         !.totalActualGas = totals[1],
                         !.totalOptimalGas = totals[2],
                         !.totalSlippage = totals[3],
                         !.validComparisons = totals[4],
                         !.detailedComparisons = RecordsOf(kinds)]
             /\ prev = OtherOrder(RecordsOf(Reordered(kinds, p)))

\* the code after the loop: the recommendations and the result
Recommend ==
  /\ cmp.pc = "recommend"
  /\ cmp' = CmpDone(cmp, ComparisonResult(cmp))
  /\ UNCHANGED <<upstream, env, req, dune, txop, rep, resp, prev>>

\* the same code on the same records in the other order
RecommendReordered ==
  /\ cmp.pc = "done"
  /\ ~prev.success
  /\ prev' = ComparisonResult(
               [cmp EXCEPT !.transactions = OtherTransactions,
                           !.detailedComparisons = prev.detailedComparisons])
  /\ UNCHANGED <<upstream, env, req, dune, txop, cmp, rep, resp>>

RecNext == Recommend \/ RecommendReordered

RecommendSpec == RecInit /\ [][RecNext]_vars

\* both runs have returned
BothRecommended == cmp.pc = "done" /\ prev.success

\* how many of the transactions are on a venue
CountOn(transactions, dex) ==
  Cardinality({i \in 1..Len(transactions) : transactions[i].dex = dex})

\* the venues with the highest count
TopVenues(transactions) ==
  {transactions[i].dex : i \in 1..Len(transactions)}
    \ {transactions[i].dex : i \in
         {k \in 1..Len(transactions) :
            \E j \in 1..Len(transactions) :
              CountOn(transactions, transactions[j].dex)
                > CountOn(transactions, transactions[k].dex)}}

\* the first transaction on one of the venues with the highest count is on
\* Uniswap V2
FirstTopIsV2(transactions) ==
  \E i \in 1..Len(transactions) :
    /\ transactions[i].dex = "Uniswap V2"
    /\ transactions[i].dex \in TopVenues(transactions)
    /\ \A k \in 1..(i - 1) : transactions[k].dex \notin TopVenues(transactions)

IsUpgradeAdvice(text) == text = "Consider upgrading to Uniswap V3"
IsOtherAdvice(text) == ~IsUpgradeAdvice(text)

\* C13 as stated: two orderings of the same transactions and comparison
\* records, with the same totals and mean slippage, get the same list of
\* recommendations
C13_OrderIndependent ==
  BothRecommended =>
    prev.recommendations = cmp.out.result.recommendations

\* C13, amended: the two lists agree in everything but the Uniswap V2
\* suggestion; that suggestion is made exactly when the first transaction on
\* a most-used venue is on Uniswap V2, so it is the same for both orderings
\* whenever a single venue has the highest count
C13_OrderIndependentUnlessTied ==
  BothRecommended =>
    LET first == cmp.out.result.recommendations
        second == prev.recommendations
    IN /\ SelectSeq(first, IsOtherAdvice) = SelectSeq(second, IsOtherAdvice)
       /\ Len(SelectSeq(first, IsUpgradeAdvice))
            = (IF FirstTopIsV2(cmp.transactions) THEN 1 ELSE 0)
       /\ Len(SelectSeq(second, IsUpgradeAdvice))
            = (IF FirstTopIsV2(OtherTransactions) THEN 1 ELSE 0)
       /\ Cardinality(TopVenues(cmp.transactions)) <= 1 => first = second

\* Uniswap V2 is the single most-used venue, the transactions come in another
\* order the second time, and both runs suggest the upgrade
C13_Witness ==
  /\ BothRecommended
  /\ TopVenues(cmp.transactions) = {"Uniswap V2"}
  /\ Len(cmp.transactions) = 3
  /\ OtherTransactions # cmp.transactions
  /\ prev.recommendations = cmp.out.result.recommendations
  /\ Len(SelectSeq(prev.recommendations, IsUpgradeAdvice)) = 1

----------------------------------------------------------------------------
(* Two requests in flight: get_user_transactions, and compare_with_1inch    *)
(* arriving at any moment after it. Each runs its own getDuneData, whose    *)
(* job id, attempt counter and result are locals of that invocation (the    *)
(* slots "tx" and "cmp"); the events of the two are interleaved in any      *)
(* order and each poll is answered in any way.                              *)

ConcInit ==
  /\ upstream = Profile("free", "pair", <<RowB>>)
  /\ env = [DUNE_API_KEY |-> TRUE]
  /\ Idle

FirstArrives == CallTool("get_user_transactions", TRUE, WalletOk, 0)

SecondRequest ==
  [phase |-> "active", name |-> "compare_with_1inch", hasArgs |-> TRUE,
   walletAddress |-> WalletOk, limit |-> 0]

\* the second request arrives while the first is being handled, and runs up
\* to its first await
SecondArrives ==
  /\ req.phase = "active"
  /\ cmp.pc = "idle"
  /\ LET dCmp == DuneCall(CompareLimit, env.DUNE_API_KEY) IN
       /\ dune' = [dune EXCEPT !["cmp"] = dCmp]
       /\ cmp' = CmpCall(SecondRequest.walletAddress, dCmp)
  /\ UNCHANGED <<upstream, env, req, txop, rep, resp, prev>>

\* what the handler has returned to the second request
SecondResponse == HandlerReturn(SecondRequest, txop, cmp, rep)

ConcNext ==
  \/ FirstArrives
  \/ SecondArrives
  \/ ExecResponse
  \/ PollTimer
  \/ PollResponse
  \/ QuoteResponds
  \/ PauseTimerFires

ConcurrentSpec == ConcInit /\ [][ConcNext]_vars

IsStillRunning(st) == st = "QUERY_STATE_EXECUTING"

\* the poll loop of slot s stands where the answers to its own status
\* requests put it
OwnResponsesOnly(s) ==
  LET d == dune[s] IN
  /\ d.attempts = Len(SelectSeq(d.hist, IsStillRunning))
  /\ d.polls = Len(d.hist) + (IF d.pc = "poll" THEN 1 ELSE 0)
  /\ d.pc = "sleep" => d.attempts = Len(d.hist)
  /\ (d.pc = "done" /\ JobStarted(s)) =>
       /\ d.out.kind = "ok" <=> d.hist[Len(d.hist)] = "QUERY_STATE_COMPLETED"
       /\ d.out.error = Wrapped("Dune query execution failed")
            <=> d.hist[Len(d.hist)] = "QUERY_STATE_FAILED"
       /\ d.out.error = Wrapped("Network Error")
            <=> d.hist[Len(d.hist)] = "ERROR"
       /\ d.out.error = Wrapped("Dune query execution timeout")
            <=> (d.attempts = maxAttempts
                   /\ IsStillRunning(d.hist[Len(d.hist)]))

\* a step of one request leaves everything of the other as it was
OwnStateOnly ==
  /\ (dune["tx"]' # dune["tx"] \/ txop' # txop \/ resp' # resp) =>
       (dune["cmp"]' = dune["cmp"] /\ cmp' = cmp)
  /\ (dune["cmp"]' # dune["cmp"] \/ cmp' # cmp) =>
       (dune["tx"]' = dune["tx"] /\ txop' = txop /\ resp' = resp)

\* C14: with the poll loops of two requests interleaved in any order, the
\* attempt counter and the outcome of each depend only on the answers to its
\* own status requests, and no step of one changes the state of the other
C14_NoInterference ==
  /\ [](\A s \in Slots : OwnResponsesOnly(s))
  /\ [][OwnStateOnly]_vars

\* both requests are in their poll loops, at different attempt counts
C14_Witness ==
  /\ req.name = "get_user_transactions"
  /\ dune["tx"].pc = "sleep"
  /\ dune["tx"].attempts = 5
  /\ dune["cmp"].pc = "poll"
  /\ dune["cmp"].attempts = 2
  /\ resp = NoResponse
  /\ SecondResponse = NoResponse

\* the first request timed out after 30 polls while the second got its rows
\* at its third poll and went on to its quote
C14_OutcomeWitness ==
  /\ FailsTimeout(dune["tx"])
  /\ resp.kind = "result" /\ ~resp.payload.success
  /\ ReturnsRows(dune["cmp"])
  /\ dune["cmp"].attempts = 2
  /\ SecondResponse.kind = "result" /\ SecondResponse.payload.success

----------------------------------------------------------------------------
(* What compareWithOneInch works on *)

\* C15: every transaction compareWithOneInch counts in totalTransactions,
\* adds to the gas totals or records in detailedComparisons has passed the
\* retrieval filter (positive from_amount, to_amount and gas_used), and the
\* wallet has passed the retrieval validation (0x prefix, 42 characters)
C15_ComparesRetrievedOnly ==
  Compared =>
    /\ WellFormed(cmp.wallet)
    /\ cmp.out.result.totalTransactions
         = Len(SelectSeq(cmp.transactions, HasPositiveAmounts))
    /\ \A k \in 1..Len(cmp.quoted) :
         HasPositiveAmounts(cmp.transactions[cmp.quoted[k].i])
    /\ Len(cmp.out.result.detailedComparisons) = Len(cmp.quoted)

----------------------------------------------------------------------------
(* The line items of a ComparisonResult *)

\* the gas difference of one transaction against its own quote
OwnGasDifference(tx, estimatedGas) ==
  tx.gas_used * tx.gas_price - estimatedGas * tx.gas_price

\* C16: in every ComparisonResult the gasDifference of the records sums to
\* totalActualGas - totalOptimalGas, each record's gasDifference comes from
\* its own transaction and quote, and there are no more records than
\* transactions
C16_LineItemsMatchTotals ==
  Compared =>
    LET txs == cmp.transactions
        q == cmp.quoted
        res == cmp.out.result
        recs == res.detailedComparisons
    IN /\ Sum([k \in 1..Len(recs) |-> recs[k].gasDifference])
            = res.totalActualGas - res.totalOptimalGas
       /\ Len(recs) = Len(q)
       /\ \A k \in 1..Len(recs) :
            /\ recs[k].txHash = txs[q[k].i].hash
            /\ recs[k].gasDifference
                 = OwnGasDifference(txs[q[k].i], q[k].estimatedGas)
       /\ Len(recs) <= res.totalTransactions

\* three transactions, one skipped: two records, the first in favour of the
\* quote and the second against it
C16_Witness ==
  /\ Compared
  /\ cmp.out.result.totalTransactions = 3
  /\ Len(cmp.out.result.detailedComparisons) = 2
  /\ cmp.out.result.detailedComparisons[1].gasDifference > 0
  /\ cmp.out.result.detailedComparisons[2].gasDifference < 0
  /\ cmp.out.result.totalActualGas # cmp.out.result.totalOptimalGas

----------------------------------------------------------------------------
(* The savings of a report against the gas it accounts for *)

\* C17: in every report potentialSavings does not exceed totalGasSpent, so
\* savingsPercentage (here in hundredths of a percent) lies in [0, 100]
C17_SavingsWithinSpent ==
  Reported =>
    LET gas == rep.out.result.gasAnalysis IN
    /\ gas.potentialSavings <= gas.totalGasSpent
    /\ gas.savingsPercentage >= 0
    /\ gas.savingsPercentage <= 100 * 100

====
